---- MODULE Spec2Model ----
(***************************************************************************)
(* A model of the payload extraction engine of payload-dumper-android-rust *)
(* (src/src/payload.rs, src/src/lib.rs).                                   *)
(*                                                                         *)
(* Byte strings (the payload file, read buffers, the destination file) are *)
(* kept run-length encoded: a sequence of <<byte, count>> runs in normal   *)
(* form (count >= 1, neighbouring runs carry different bytes), so that two *)
(* byte strings are equal exactly when their encodings are equal and the   *)
(* real block size of 4096 bytes can be kept.                              *)
(*                                                                         *)
(* Input and output fail only where the inputs decide it: a destination    *)
(* path that cannot be created, and a payload file that ends before the    *)
(* bytes asked for. Failures of the device (a write, a flush or a re-open  *)
(* that fails) are not part of the model.                                  *)
(***************************************************************************)
EXTENDS Integers, Sequences, FiniteSets, TLC

\* ------------------------------------------------------------------ bounds

\* How many calls (extract / get_partition_list) one Payload instance serves.
MaxCalls == 2

\* Offsets and lengths at or above this value are beyond every file of the
\* model; they are all treated alike (a seek past the end of file).
OutOfRange == 16777216

\* ------------------------------------------------------- program constants

BLOCK_SIZE == 4096
BRILLO_MAJOR_PAYLOAD_VERSION == 2
HEADER_SIZE == 24
\* std::io::BufReader's default capacity (DEFAULT_BUF_SIZE), used by
\* BufReader::new.
BUF_CAPACITY == 8192

\* "CrAU" as bytes.
PAYLOAD_HEADER_MAGIC == <<67, 114, 65, 85>>

\* Option values: None, or Some(x).
None == <<>>
Some(x) == <<x>>
IsSome(o) == o # <<>>
Get(o) == o[1]
\* Option::unwrap_or
UnwrapOr(o, d) == IF IsSome(o) THEN o[1] ELSE d

\* ------------------------------------------------ run-length encoded bytes

Min(a, b) == IF a < b THEN a ELSE b
Max(a, b) == IF a > b THEN a ELSE b

\* n copies of byte b.
Rep(b, n) == IF n <= 0 THEN <<>> ELSE << <<b, n>> >>

\* Concatenation, kept in normal form.
Cat(x, y) ==
    IF x = <<>> THEN y
    ELSE IF y = <<>> THEN x
    ELSE IF x[Len(x)][1] = y[1][1]
         THEN SubSeq(x, 1, Len(x) - 1)
              \o << <<y[1][1], x[Len(x)][2] + y[1][2]>> >>
              \o Tail(y)
         ELSE x \o y

RECURSIVE CLen(_)
\* Number of bytes of a byte string.
CLen(x) == IF x = <<>> THEN 0 ELSE x[1][2] + CLen(Tail(x))

RECURSIVE Drop(_, _)
\* x without its first k bytes.
Drop(x, k) ==
    IF x = <<>> \/ k <= 0 THEN x
    ELSE IF x[1][2] <= k THEN Drop(Tail(x), k - x[1][2])
    ELSE << <<x[1][1], x[1][2] - k>> >> \o Tail(x)

RECURSIVE TakeBytes(_, _)
\* The first k bytes of x (all of x when it is shorter).
TakeBytes(x, k) ==
    IF x = <<>> \/ k <= 0 THEN <<>>
    ELSE IF x[1][2] <= k THEN <<x[1]>> \o TakeBytes(Tail(x), k - x[1][2])
    ELSE << <<x[1][1], k>> >>

\* Up to n bytes of x starting at byte offset pos.
Slice(x, pos, n) == TakeBytes(Drop(x, pos), n)

RECURSIVE Expand(_)
\* A (short) byte string as a plain sequence of bytes.
Expand(x) ==
    IF x = <<>> THEN <<>>
    ELSE <<x[1][1]>> \o Expand(Cat(Rep(x[1][1], x[1][2] - 1), Tail(x)))

RECURSIVE Pack(_)
\* A plain sequence of bytes as a byte string.
Pack(s) == IF s = <<>> THEN <<>> ELSE Cat(Rep(s[1], 1), Pack(Tail(s)))

\* ------------------------------------------------------ fixed-width numbers

\* A u64 (or u32) is kept as its bytes, least significant first, so that the
\* full 64-bit range is representable and additions wrap as the machine's do.

Reverse(s) == [i \in 1..Len(s) |-> s[Len(s) + 1 - i]]

\* u64::from_be_bytes, u32::from_be_bytes: the buffer's first byte is the
\* most significant.
FromBeBytes(buf) == Reverse(buf)

\* The big-endian bytes of a number (used to build the model's files).
ToBeBytes(x) == Reverse(x)

RECURSIVE CarryIn(_, _, _)
\* The carry into byte position i when adding a and b (equal lengths).
CarryIn(a, b, i) ==
    IF i <= 1 THEN 0 ELSE (a[i - 1] + b[i - 1] + CarryIn(a, b, i - 1)) \div 256

\* a + b modulo 2^(8 * Len(a)).
WrapAdd(a, b) == [i \in 1..Len(a) |-> (a[i] + b[i] + CarryIn(a, b, i)) % 256]

\* Whether a + b does not fit in the width of a.
AddOverflows(a, b) == CarryIn(a, b, Len(a) + 1) = 1

\* a * k modulo 2^(8 * Len(a)), for a small factor k, and whether the product
\* does not fit.
RECURSIVE MulCarryIn(_, _, _)
MulCarryIn(a, k, i) ==
    IF i <= 1 THEN 0 ELSE (a[i - 1] * k + MulCarryIn(a, k, i - 1)) \div 256

WrapMul(a, k) == [i \in 1..Len(a) |-> (a[i] * k + MulCarryIn(a, k, i)) % 256]

MulOverflows(a, k) == MulCarryIn(a, k, Len(a) + 1) # 0

\* Zero-extension to w bytes (`as u64`).
Widen(a, w) == a \o [i \in 1..(w - Len(a)) |-> 0]

\* A fixed-width number as a natural number (`as usize`, and the offsets of
\* seeks); every value of 2^24 or more is reported as OutOfRange.
ToNat(x) ==
    IF \A i \in 4..Len(x) : x[i] = 0
    THEN x[1] + 256 * x[2] + 65536 * x[3]
    ELSE OutOfRange

\* A natural number below 2^24 as a u64 and as a u32.
U64(n) == <<n % 256, (n \div 256) % 256, (n \div 65536) % 256, 0, 0, 0, 0, 0>>
U32(n) == <<n % 256, (n \div 256) % 256, (n \div 65536) % 256, 0>>

\* ------------------------------------------------------------------- UTF-8

IsCont(b) == b >= 128 /\ b <= 191

RECURSIVE ValidUtf8From(_, _)
\* core::str::from_utf8 accepts bs[i..]: well-formed UTF-8, no overlong
\* forms, no surrogates, nothing above U+10FFFF.
ValidUtf8From(bs, i) ==
    IF i > Len(bs) THEN TRUE
    ELSE LET b == bs[i]
             has(k) == i + k <= Len(bs)
         IN  IF b < 128 THEN ValidUtf8From(bs, i + 1)
             ELSE IF b >= 194 /\ b <= 223
                  THEN has(1) /\ IsCont(bs[i + 1]) /\ ValidUtf8From(bs, i + 2)
             ELSE IF b >= 224 /\ b <= 239
                  THEN /\ has(2)
                       /\ IsCont(bs[i + 1]) /\ IsCont(bs[i + 2])
                       /\ (b = 224 => bs[i + 1] >= 160)
                       /\ (b = 237 => bs[i + 1] <= 159)
                       /\ ValidUtf8From(bs, i + 3)
             ELSE IF b >= 240 /\ b <= 244
                  THEN /\ has(3)
                       /\ IsCont(bs[i + 1]) /\ IsCont(bs[i + 2]) /\ IsCont(bs[i + 3])
                       /\ (b = 240 => bs[i + 1] >= 144)
                       /\ (b = 244 => bs[i + 1] <= 143)
                       /\ ValidUtf8From(bs, i + 4)
             ELSE FALSE

ValidUtf8(bs) == ValidUtf8From(bs, 1)

\* ----------------------------------------------------------------- digests

\* SHA-256, idealised as collision free: the digest of a byte string names
\* the byte string.
Sha256(x) == <<"sha256", x>>

\* hex::encode: the empty byte string gives the empty text, and distinct
\* byte strings give distinct texts.
HexEncode(d) == IF d = <<>> THEN <<>> ELSE <<"hex", d>>

\* ------------------------------------------------------------- the inputs

\* The operation data region of the model's payloads.
BlockA == Rep(170, BLOCK_SIZE)
BlockB == Rep(187, BLOCK_SIZE)
XzStream == Pack(<<253, 1>>)
BzStream == Pack(<<66, 90>>)
DataRegion == Cat(Cat(BlockA, BlockB), Cat(XzStream, BzStream))
\* What the read at offset 8192 with data_length 4096 leaves in its buffer:
\* the 4 bytes the file still holds, then the buffer's initial zeros.
PaddedTail == Cat(Cat(XzStream, BzStream), Rep(0, BLOCK_SIZE - 4))

\* A destination extent list of one extent of n blocks (n a u64).
ExtentOf(n) == <<[start_block |-> Some(U64(0)), num_blocks |-> Some(n)]>>
Extent(n) == ExtentOf(U64(n))
\* 2^52 + 1 blocks: times 4096, one block more than 2^64 bytes.
HugeBlocks == <<1, 0, 0, 0, 0, 0, 16, 0>>

Op(t, off, len, ext, h) ==
    [type |-> t, data_offset |-> off, data_length |-> len,
     dst_extents |-> ext, data_sha256_hash |-> h]

OpA      == Op("Replace", Some(0), Some(BLOCK_SIZE), Extent(1), Sha256(BlockA))
OpB      == Op("Replace", Some(BLOCK_SIZE), Some(BLOCK_SIZE), Extent(1), <<>>)
OpBBad   == Op("Replace", Some(BLOCK_SIZE), Some(BLOCK_SIZE), Extent(1), Sha256(BlockA))
OpZero   == Op("Zero", None, None, Extent(1), <<>>)
OpXz     == Op("ReplaceXz", Some(2 * BLOCK_SIZE), Some(2), Extent(1), Sha256(XzStream))
OpBz     == Op("ReplaceBz", Some(2 * BLOCK_SIZE + 2), Some(2), Extent(2), <<>>)
OpXzBad  == Op("ReplaceXz", Some(0), Some(BLOCK_SIZE), Extent(1), <<>>)
OpShort  == Op("Replace", Some(0), Some(10), Extent(1), <<>>)
OpTrunc  == Op("Replace", Some(2 * BLOCK_SIZE), Some(BLOCK_SIZE), Extent(1), <<>>)
OpNoExt  == Op("Replace", Some(0), Some(BLOCK_SIZE), <<>>, <<>>)
OpUnsup  == Op("SourceCopy", None, None, Extent(1), <<>>)
OpNone   == Op("Zero", None, None, Extent(0), <<>>)
OpHuge   == Op("Zero", None, None, ExtentOf(HugeBlocks), <<>>)

Info(sz, h) == [size |-> sz, hash |-> h]
SomeInfo(sz, h) == Some(Info(Some(sz), Some(h)))

Part(n, ops, info) ==
    [partition_name |-> n, operations |-> ops, new_partition_info |-> info]

\* A manifest whose partitions all declare size and hash.
Manifest1 ==
    [partitions |-> <<
        Part("boot", <<OpA, OpB, OpZero>>,
             SomeInfo(3 * BLOCK_SIZE,
                  Sha256(Cat(Cat(BlockA, BlockB), Rep(0, BLOCK_SIZE))))),
        Part("system", <<OpXz, OpBz>>, SomeInfo(3 * BLOCK_SIZE, Sha256(BlockA))),
        Part("vendor", <<OpA, OpBBad, OpB>>,
              SomeInfo(3 * BLOCK_SIZE, Sha256(Cat(BlockA, Cat(BlockB, BlockB))))),
        Part("short", <<OpA, OpShort>>, SomeInfo(2 * BLOCK_SIZE, Sha256(BlockA))),
        Part("trunc", <<OpA, OpTrunc>>,
              SomeInfo(2 * BLOCK_SIZE, Sha256(Cat(BlockA, PaddedTail)))),
        Part("noext", <<OpNoExt>>, SomeInfo(BLOCK_SIZE, Sha256(BlockA))),
        Part("unsup", <<OpA, OpUnsup>>, SomeInfo(2 * BLOCK_SIZE, Sha256(BlockA))),
        Part("badxz", <<OpXzBad>>, SomeInfo(BLOCK_SIZE, Sha256(BlockA))),
        Part("empty", <<>>, SomeInfo(0, Sha256(<<>>))),
        Part("many", <<OpNone, OpNone, OpNone, OpNone, OpNone, OpNone, OpNone>>,
             SomeInfo(0, Sha256(<<>>))),
        Part("huge", <<OpHuge>>, SomeInfo(BLOCK_SIZE, Sha256(Rep(0, BLOCK_SIZE)))),
        Part("dup", <<OpA>>, SomeInfo(BLOCK_SIZE, Sha256(BlockA))),
        Part("dup", <<OpA, OpB>>, SomeInfo(2 * BLOCK_SIZE, Sha256(BlockA)))
     >>,
     security_patch_level |-> "2024-01-01"]

\* A manifest with partitions that lack their info, size or hash.
Manifest2 ==
    [partitions |-> <<
        Part("boot", <<OpA>>, SomeInfo(BLOCK_SIZE, Sha256(BlockA))),
        Part("noinfo", <<OpA>>, None),
        Part("nosize", <<OpA>>, Some(Info(None, Some(Sha256(BlockA))))),
        Part("nohash", <<OpA>>, Some(Info(Some(BLOCK_SIZE), None)))
     >>,
     security_patch_level |-> ""]

\* A manifest every partition of which can be listed.
Manifest3 ==
    [partitions |-> <<
        Part("boot", <<OpA>>, SomeInfo(BLOCK_SIZE, Sha256(BlockA))),
        Part("system", <<OpA, OpB>>,
              SomeInfo(2 * BLOCK_SIZE, Sha256(Cat(BlockA, BlockB))))
     >>,
     security_patch_level |-> "2024-01-01"]

EmptyManifest == [partitions |-> <<>>, security_patch_level |-> ""]

\* The manifest codec (prost::Message::decode) is external: a serialized
\* manifest of the model is the empty byte string (which decodes to the
\* manifest without partitions) or one byte that names a manifest.
ManifestDecode(bytes) ==
    IF bytes = <<>> THEN [ok |-> TRUE, manifest |-> EmptyManifest]
    ELSE IF bytes = Pack(<<1>>) THEN [ok |-> TRUE, manifest |-> Manifest1]
    ELSE IF bytes = Pack(<<2>>) THEN [ok |-> TRUE, manifest |-> Manifest2]
    ELSE IF bytes = Pack(<<3>>) THEN [ok |-> TRUE, manifest |-> Manifest3]
    ELSE [ok |-> FALSE, manifest |-> None]

\* An envelope: header bytes, manifest bytes, signature bytes, data region.
Envelope(magic, version, mlen, slen, mbytes, sig, data) ==
    Cat(Pack(magic \o ToBeBytes(version) \o ToBeBytes(mlen) \o ToBeBytes(slen)),
        Cat(mbytes, Cat(sig, data)))

GoodEnvelope(m) ==
    Envelope(PAYLOAD_HEADER_MAGIC, U64(BRILLO_MAJOR_PAYLOAD_VERSION),
             U64(1), U32(2), Pack(<<m>>), Rep(9, 2), DataRegion)

\* The payload sources: the file's bytes, the offset Payload::new computes
\* (0, or the data start of the archive entry payload.bin), and the position
\* Payload::new leaves the file cursor at.
Source(bytes, off, cur) == [bytes |-> bytes, zip_offset |-> off, cursor |-> cur]

Sources ==
    << Source(GoodEnvelope(1), 0, 0),
       Source(Cat(Rep(80, 30), Cat(GoodEnvelope(1), Rep(75, 22))), 30, 60),
       Source(GoodEnvelope(2), 0, 0),
       Source(GoodEnvelope(3), 0, 0),
       \* bad magic
       Source(Envelope(<<67, 114, 65, 86>>, U64(2), U64(1), U32(2),
                       Pack(<<1>>), Rep(9, 2), DataRegion), 0, 0),
       \* unsupported version
       Source(Envelope(PAYLOAD_HEADER_MAGIC, U64(1), U64(1), U32(2),
                       Pack(<<1>>), Rep(9, 2), DataRegion), 0, 0),
       \* manifest that does not decode
       Source(GoodEnvelope(77), 0, 0),
       \* manifest cut short
       Source(Envelope(PAYLOAD_HEADER_MAGIC, U64(2), U64(5), U32(0),
                       Pack(<<1>>), <<>>, <<>>), 0, 0),
       \* empty manifest
       Source(Envelope(PAYLOAD_HEADER_MAGIC, U64(2), U64(0), U32(0),
                       <<>>, <<>>, DataRegion), 0, 0)
    >>

\* ---------------------------------------------------------------- the state

VARIABLES
    build,       \* "debug" (overflow checks on) or "release" (wrapping)
    file,        \* the bytes of the opened payload file
    zip_offset,  \* Payload.zip_offset
    cursor,      \* the position of Payload.file
    header,      \* Payload.header
    manifest,    \* Payload.manifest
    fs,          \* the destination files: path -> bytes, or None
    stdout,      \* what println! has written
    events,      \* the callbacks made during the current call, in order
    call,        \* the running call: its arguments, locals and position
    ncalls,      \* calls begun on this instance
    fresh        \* the same call as made on a newly constructed instance

vars == <<build, file, zip_offset, cursor, header, manifest, fs, stdout,
          events, call, ncalls, fresh>>

\* The Payload instance, the file system and the running call as one value:
\* what every step of a call reads and returns.
Cur ==
    [cursor |-> cursor, header |-> header, manifest |-> manifest, fs |-> fs,
     stdout |-> stdout, events |-> events, call |-> call]

Idle ==
    [pc |-> "idle", op |-> "none", name |-> "", out |-> "", pidx |-> 1,
     found |-> FALSE, oidx |-> 1, progress_track |-> 0, result |-> "Pending",
     \* bookkeeping of the model, read by no step:
     sel |-> 0,               \* the partition whose operations last began
     evBase |-> 0,            \* callbacks made before those operations began
     opStartDest |-> <<>>,    \* the destination when the last operation began
     shortRead |-> FALSE,     \* a source read brought fewer bytes than asked
     stale |-> FALSE,         \* the call began with the cursor elsewhere
     prevFailed |-> FALSE]    \* the call before this one failed

\* The call ends with result res; a panic ends the process.
Finish(s, res) ==
    [s EXCEPT !.call.pc = IF res = "Panic" THEN "aborted" ELSE "done",
              !.call.result = res]

\* --------------------------------------------------------------- Payload::init

\* read_exact of n bytes at position cur of the payload file.
ReadExact(cur, n) ==
    LET got == Slice(file, cur, n)
    IN  IF CLen(got) = n
        THEN [ok |-> TRUE, bytes |-> got, cursor |-> cur + n]
        ELSE [ok |-> FALSE, bytes |-> got, cursor |-> Max(cur, CLen(file))]

NoHeader(res, cur) == [res |-> res, header |-> None, cursor |-> cur]

\* The derived fields of a header (lines 116-118). An addition that does not
\* fit in 64 bits panics in a build with overflow checks and wraps otherwise.
DeriveHeader(version, manifest_len, signature_len, cur) ==
    LET size == U64(HEADER_SIZE)
        sig64 == Widen(signature_len, 8)
        metadata_size == WrapAdd(size, manifest_len)
        data_offset == WrapAdd(sig64, metadata_size)
    IN  IF build = "debug" /\ (\/ AddOverflows(size, manifest_len)
                               \/ AddOverflows(sig64, metadata_size))
        THEN NoHeader("Panic", cur)
        ELSE [res |-> "Ok",
              header |-> Some([version |-> version, size |-> size,
                               manifest_len |-> manifest_len,
                               signature_len |-> signature_len,
                               data_offset |-> data_offset,
                               metadata_size |-> metadata_size]),
              cursor |-> cur]

\* The check of the 4 magic bytes (line 88).
CheckMagic(buf) ==
    IF ~ValidUtf8(buf) THEN "Utf8Error"
    ELSE IF buf # PAYLOAD_HEADER_MAGIC THEN "InvalidFormat"
    ELSE "Ok"

\* Payload::read_header with the file cursor at cur.
ReadHeader(cur) ==
    LET r1 == ReadExact(cur, 4)
        r2 == ReadExact(r1.cursor, 8)
        r3 == ReadExact(r2.cursor, 8)
        r4 == ReadExact(r3.cursor, 4)
    IN  IF ~r1.ok THEN NoHeader("UnexpectedEof", r1.cursor)
        ELSE IF CheckMagic(Expand(r1.bytes)) # "Ok"
             THEN NoHeader(CheckMagic(Expand(r1.bytes)), r1.cursor)
        ELSE IF ~r2.ok THEN NoHeader("UnexpectedEof", r2.cursor)
        ELSE IF FromBeBytes(Expand(r2.bytes)) # U64(BRILLO_MAJOR_PAYLOAD_VERSION)
             THEN NoHeader("UnsupportedVersion", r2.cursor)
        ELSE IF ~r3.ok THEN NoHeader("UnexpectedEof", r3.cursor)
        ELSE IF ~r4.ok THEN NoHeader("UnexpectedEof", r4.cursor)
        ELSE DeriveHeader(FromBeBytes(Expand(r2.bytes)),
                          FromBeBytes(Expand(r3.bytes)),
                          FromBeBytes(Expand(r4.bytes)), r4.cursor)

\* Payload::read_manifest with header h and the file cursor at cur.
ReadManifest(h, cur) ==
    LET r == ReadExact(cur, ToNat(h.manifest_len))
        d == ManifestDecode(r.bytes)
    IN  IF ~r.ok THEN [res |-> "UnexpectedEof", manifest |-> None, cursor |-> r.cursor]
        ELSE IF ~d.ok THEN [res |-> "DecodeError", manifest |-> None, cursor |-> r.cursor]
        ELSE [res |-> "Ok", manifest |-> Some(d.manifest), cursor |-> r.cursor]

\* init without its seek: the cursor stays where the last call left it.
InitSeekSkipped(cur) == cur

\* Where init's seek leaves the file cursor (line 65).
InitSeek(cur) == zip_offset

\* Payload::init, and what extract and get_partition_list do with its result
\* (lines 135-137, 256-258).
InitStep(s) ==
    LET rh == ReadHeader(InitSeek(s.cursor))
        rm == ReadManifest(Get(rh.header), rh.cursor)
    IN  IF rh.res # "Ok"
        THEN Finish([s EXCEPT !.cursor = rh.cursor], rh.res)
        ELSE IF rm.res # "Ok"
        THEN Finish([s EXCEPT !.cursor = rm.cursor, !.header = rh.header], rm.res)
        ELSE [s EXCEPT !.cursor = rm.cursor, !.header = rh.header,
                       !.manifest = rm.manifest,
                       !.call.pc = IF s.call.op = "extract" THEN "lookup"
                                   ELSE "listing"]

\* ------------------------------------------------------------ Payload::extract

\* The destination paths File::create can create; every other path fails.
Creatable == {"out.img"}

\* The partition extract_selected is working on.
Selected(s) == Get(s.manifest).partitions[s.call.pidx]

\* The loop without its comparison of names: every partition is taken.
NextMatchAnyName(parts, n, i) == IF i <= Len(parts) THEN i ELSE 0

\* The least index from i on of a partition named n, or 0.
NextMatch(parts, n, i) ==
    IF \E j \in i..Len(parts) : parts[j].partition_name = n
    THEN CHOOSE j \in i..Len(parts) :
            /\ parts[j].partition_name = n
            /\ \A k \in i..(j - 1) : parts[k].partition_name # n
    ELSE 0

\* The loop of extract over the partitions (lines 139-155), from partition
\* pidx up to the next call of extract_selected or to the loop's end.
LookupStep(s) ==
    LET parts == Get(s.manifest).partitions
        j == NextMatch(parts, s.call.name, s.call.pidx)
    IN  IF j # 0
        THEN [s EXCEPT !.call.pidx = j, !.call.found = TRUE, !.call.pc = "create"]
        ELSE IF ~s.call.found THEN Finish(s, "PartitionNotFound")
        ELSE Finish(s, "Done")

\* extract_selected up to its loop (lines 159-173): the destination is
\* created or truncated, then the partition's size and hash are fetched.
CreateStep(s) ==
    LET info == Selected(s).new_partition_info
        made == [s EXCEPT !.fs[s.call.out] = Some(<<>>)]
    IN  IF s.call.out \notin Creatable THEN Finish(s, "OutputError")
        ELSE IF ~IsSome(info) THEN Finish(made, "PartitionSizeNotFound")
        ELSE IF ~IsSome(Get(info).size) THEN Finish(made, "Panic")
        ELSE IF ~IsSome(Get(info).hash) THEN Finish(made, "PartitionHashNotFound")
        ELSE [made EXCEPT !.call.pc = "ops", !.call.oidx = 1,
                          !.call.progress_track = 0,
                          !.call.sel = s.call.pidx,
                          !.call.evBase = Len(s.events)]

\* The xz and bzip2 decoders are external: the streams of the model and what
\* they decode to. Any other input is rejected before anything is produced.
XzDecode(buf) ==
    IF buf = XzStream THEN [ok |-> TRUE, out |-> Rep(204, BLOCK_SIZE)]
    ELSE [ok |-> FALSE, out |-> <<>>]

BzDecode(buf) ==
    IF buf = BzStream THEN [ok |-> TRUE, out |-> Rep(221, 2 * BLOCK_SIZE)]
    ELSE [ok |-> FALSE, out |-> <<>>]

\* The source read of one operation (lines 185-190): a seek to pos, then one
\* read of at most len bytes through a new Take of the BufReader. The buffer
\* starts as len zero bytes and keeps them where the read brought nothing.
\* cursor is where the payload file's own position ends up.
SourceRead(pos, len) ==
    LET got == Slice(file, pos, len)
        avail == Max(0, CLen(file) - pos)
    IN  [got |-> CLen(got),
         buf |-> Cat(got, Rep(0, len - CLen(got))),
         cursor |-> IF len = 0 THEN pos
                    ELSE IF len >= BUF_CAPACITY THEN pos + CLen(got)
                    ELSE pos + Min(BUF_CAPACITY, avail)]

\* What the dispatch on the operation's type copies to the destination
\* (lines 195-214).
Decode(op, buf, expected) ==
    CASE op.type = "Replace" -> [res |-> "Ok", out |-> buf]
      [] op.type = "ReplaceXz" ->
            IF XzDecode(buf).ok THEN [res |-> "Ok", out |-> XzDecode(buf).out]
            ELSE [res |-> "IoError", out |-> <<>>]
      [] op.type = "ReplaceBz" ->
            IF BzDecode(buf).ok THEN [res |-> "Ok", out |-> BzDecode(buf).out]
            ELSE [res |-> "IoError", out |-> <<>>]
      [] op.type = "Zero" -> [res |-> "Ok", out |-> Rep(0, expected)]
      [] OTHER -> [res |-> "UnsupportedOperationKind", out |-> <<>>]

\* The verdict of one operation after its copy (lines 215-224): first the
\* written count, then the source hash.
OperationVerdict(op, buf, written, expected) ==
    IF written # expected THEN "ShortWrite"
    ELSE IF /\ HexEncode(op.data_sha256_hash) # <<>>
            /\ HexEncode(Sha256(buf)) # HexEncode(op.data_sha256_hash)
         THEN "OperationHashMismatch"
    ELSE "Ok"

\* The percentage computed before the operation is counted.
PercentBeforeCount(progress_track, total_operations) ==
    ((progress_track - 1) * 100) \div total_operations

\* The percentage handed to onprogress (line 226).
Percent(progress_track, total_operations) ==
    (progress_track * 100) \div total_operations

\* One iteration of the loop of extract_selected (lines 175-227).
OperationStep(s) ==
    LET part == Selected(s)
        op == part.operations[s.call.oidx]
        total_operations == Len(part.operations)
        data_offset == UnwrapOr(op.data_offset, 0) + ToNat(Get(s.header).data_offset)
        data_length == UnwrapOr(op.data_length, 0)
        num_blocks == UnwrapOr(op.dst_extents[1].num_blocks, U64(0))
        expected == ToNat(WrapMul(num_blocks, BLOCK_SIZE))
        rd == SourceRead(zip_offset + data_offset, data_length)
        dec == Decode(op, rd.buf, expected)
        dest == Get(s.fs[s.call.out])
        verdict == OperationVerdict(op, rd.buf, CLen(dec.out), expected)
        read == [s EXCEPT !.cursor = rd.cursor,
                          !.call.opStartDest = dest,
                          !.call.shortRead = @ \/ rd.got < data_length]
        written == [read EXCEPT !.fs[s.call.out] = Some(Cat(dest, dec.out))]
    IN  IF op.dst_extents = <<>> THEN Finish(s, "InvalidExtent")
        ELSE IF build = "debug" /\ MulOverflows(num_blocks, BLOCK_SIZE)
             THEN Finish(s, "Panic")
        ELSE IF dec.res # "Ok" THEN Finish(read, dec.res)
        ELSE IF verdict # "Ok" THEN Finish(written, verdict)
        ELSE [written EXCEPT
                !.call.progress_track = @ + 1,
                !.call.oidx = @ + 1,
                !.events = Append(@, <<"progress",
                    Percent(s.call.progress_track + 1, total_operations)>>)]

\* After the loop (lines 229-230): flush, then onverify(0).
VerifyStart(s) ==
    [s EXCEPT !.events = Append(@, <<"verify", 0>>), !.call.pc = "verify"]

\* The hash of the written destination against the declared one (lines
\* 231-250), and the return into the loop of extract (lines 145-149).
VerifyFinish(s) ==
    LET hash_encoded == Get(Get(Selected(s).new_partition_info).hash)
        hash == HexEncode(hash_encoded)
        new_hash == HexEncode(Sha256(Get(s.fs[s.call.out])))
    IN  IF hash # new_hash
        THEN Finish([s EXCEPT !.events = Append(@, <<"verify", 2>>)],
                    "PartitionHashMismatch")
        ELSE [s EXCEPT !.events = Append(@, <<"verify", 1>>),
                       !.call.pc = "lookup", !.call.pidx = @ + 1]

\* ------------------------------------------------- Payload::get_partition_list

\* Texts are sequences of tokens: words, and numbers as their decimal digits.
Word(w) == <<"word", w>>

RECURSIVE Decimal(_)
\* The decimal digits of n, as {} and {:?} print an integer.
Decimal(n) == IF n < 10 THEN <<n>> ELSE Append(Decimal(n \div 10), n % 10)

Number(n) == <<"number", Decimal(n)>>

Contains(text, token) == \E i \in 1..Len(text) : text[i] = token

\* Whether the loop body of get_partition_list panics on partition p: one of
\* its expect calls meets a None (lines 268-269).
ListPanics(p) ==
    \/ ~IsSome(p.new_partition_info)
    \/ ~IsSome(Get(p.new_partition_info).size)
    \/ ~IsSome(Get(p.new_partition_info).hash)

\* The line println! writes for partition p (line 271).
ListLine(p) ==
    << Word("Name:"), Word(p.partition_name),
       Word("Size:"), Number(Get(Get(p.new_partition_info).size)),
       Word("Hash:"), <<"hex", HexEncode(Get(Get(p.new_partition_info).hash))>> >>

\* get_partition_list after init (lines 260-277): the lines go to the
\* standard output, the value returned is "Done".
ListStep(s) ==
    LET parts == Get(s.manifest).partitions
        bad == {i \in 1..Len(parts) : ListPanics(parts[i])}
        upto == IF bad = {} THEN Len(parts)
                ELSE (CHOOSE i \in bad : \A j \in bad : i <= j) - 1
        h == Get(s.header)
        head == << Word("Partition list:"),
                   <<"version", h.version>>, <<"manifest_len", h.manifest_len>>,
                   <<"signature_len", h.signature_len>>,
                   Word(Get(s.manifest).security_patch_level) >>
        printed == [s EXCEPT !.stdout =
                        @ \o <<head>> \o [i \in 1..upto |-> ListLine(parts[i])]]
    IN  Finish(printed, IF bad = {} THEN "Done" ELSE "Panic")

\* What Java_..._getPartitionList hands back to its caller (lib.rs, lines
\* 30-44): the text get_partition_list returned, or "Error:" and the error.
ReturnedText(s) ==
    IF s.call.result = "Done" THEN <<Word("Done")>>
    ELSE <<Word("Error:"), Word(s.call.result)>>

\* ------------------------------------------------------------------- the calls

\* The next step of the running call.
Step(s) ==
    CASE s.call.pc = "init" -> InitStep(s)
      [] s.call.pc = "lookup" -> LookupStep(s)
      [] s.call.pc = "create" -> CreateStep(s)
      [] s.call.pc = "ops" ->
            IF s.call.oidx <= Len(Selected(s).operations)
            THEN OperationStep(s) ELSE VerifyStart(s)
      [] s.call.pc = "verify" -> VerifyFinish(s)
      [] s.call.pc = "listing" -> ListStep(s)
      [] OTHER -> s

RECURSIVE RunToEnd(_)
\* The call run to its end.
RunToEnd(s) == IF s.call.pc \in {"done", "aborted"} THEN s ELSE RunToEnd(Step(s))

\* What a caller observes of a finished call.
Outcome(s) ==
    [result |-> s.call.result, events |-> s.events, fs |-> s.fs,
     stdout |-> s.stdout]

\* A call record as extract (or get_partition_list) starts.
NewCall(op, name, out) ==
    [Idle EXCEPT !.pc = "init", !.op = op, !.name = name, !.out = out,
                 !.stale = cursor # zip_offset,
                 !.prevFailed = call.result \notin {"Pending", "Done"}]

\* The instance Payload::new builds for the same source (lines 42-61), about
\* to serve this call with the file system as it is now.
FreshInstance(c, src) ==
    [cursor |-> src, header |-> None, manifest |-> None, fs |-> fs,
     stdout |-> <<>>, events |-> <<>>, call |-> c]

Names ==
    {"boot", "system", "vendor", "short", "trunc", "noext", "unsup", "badxz",
     "empty", "many", "huge", "dup", "noinfo", "nosize", "nohash", "missing"}

Outs == {"out.img", "nodir/out.img"}

Apply(n) ==
    /\ cursor' = n.cursor
    /\ header' = n.header
    /\ manifest' = n.manifest
    /\ fs' = n.fs
    /\ stdout' = n.stdout
    /\ events' = n.events
    /\ call' = n.call

CanBegin == call.pc \in {"idle", "done"} /\ ncalls < MaxCalls

\* A caller starts extract(name, out, ...).
BeginExtract ==
    /\ CanBegin
    /\ \E name \in Names, out \in Outs :
          /\ call' = NewCall("extract", name, out)
          /\ fresh' = Outcome(RunToEnd(FreshInstance(NewCall("extract", name, out),
                                                     fresh.cursor0)))
                      @@ [cursor0 |-> fresh.cursor0]
    /\ events' = <<>>
    /\ stdout' = <<>>
    /\ ncalls' = ncalls + 1
    /\ UNCHANGED <<build, file, zip_offset, cursor, header, manifest, fs>>

\* A caller starts get_partition_list().
BeginList ==
    /\ CanBegin
    /\ call' = NewCall("list", "", "")
    /\ fresh' = Outcome(RunToEnd(FreshInstance(NewCall("list", "", ""),
                                               fresh.cursor0)))
                @@ [cursor0 |-> fresh.cursor0]
    /\ events' = <<>>
    /\ stdout' = <<>>
    /\ ncalls' = ncalls + 1
    /\ UNCHANGED <<build, file, zip_offset, cursor, header, manifest, fs>>

Running(pc) ==
    /\ call.pc = pc
    /\ UNCHANGED <<build, file, zip_offset, ncalls, fresh>>

DoInit == Running("init") /\ Apply(InitStep(Cur))

DoLookup == Running("lookup") /\ Apply(LookupStep(Cur))

DoCreate == Running("create") /\ Apply(CreateStep(Cur))

DoOperation ==
    /\ Running("ops")
    /\ call.oidx <= Len(Selected(Cur).operations)
    /\ Apply(OperationStep(Cur))

DoVerifyStart ==
    /\ Running("ops")
    /\ call.oidx > Len(Selected(Cur).operations)
    /\ Apply(VerifyStart(Cur))

DoVerifyFinish == Running("verify") /\ Apply(VerifyFinish(Cur))

DoList == Running("listing") /\ Apply(ListStep(Cur))

\* The file system before any call: the destination absent, or present with
\* earlier content.
InitialFs == {[p \in Creatable |-> None], [p \in Creatable |-> Some(Rep(7, 5))]}

Init ==
    /\ build \in {"debug", "release"}
    /\ \E i \in 1..Len(Sources) :
          /\ file = Sources[i].bytes
          /\ zip_offset = Sources[i].zip_offset
          /\ cursor = Sources[i].cursor
          /\ fresh = [result |-> "Pending", events |-> <<>>, stdout |-> <<>>,
                      fs |-> [p \in Creatable |-> None],
                      cursor0 |-> Sources[i].cursor]
    /\ header = None
    /\ manifest = None
    /\ fs \in InitialFs
    /\ stdout = <<>>
    /\ events = <<>>
    /\ call = Idle
    /\ ncalls = 0

Next ==
    \/ BeginExtract
    \/ BeginList
    \/ DoInit
    \/ DoLookup
    \/ DoCreate
    \/ DoOperation
    \/ DoVerifyStart
    \/ DoVerifyFinish
    \/ DoList

Spec == Init /\ [][Next]_vars

\* ------------------------------------------------------ read_header on its own

\* The header inputs: magic bytes (the signature, a wrong letter, bytes that
\* are no UTF-8, a sequence cut inside a character, zeros), version fields,
\* manifest and signature lengths over the whole range of their widths.
Magics ==
    { PAYLOAD_HEADER_MAGIC, <<67, 114, 65, 86>>, <<255, 114, 65, 85>>,
      <<67, 114, 65, 195>>, <<0, 0, 0, 0>> }

Versions ==
    { U64(2), U64(1), U64(3), <<0, 0, 0, 0, 0, 0, 0, 2>>, <<2, 0, 0, 0, 1, 0, 0, 0>> }

ManifestLens ==
    { U64(0), U64(1), U64(4096),
      <<231, 255, 255, 255, 255, 255, 255, 255>>,   \* 2^64 - 25
      <<232, 255, 255, 255, 255, 255, 255, 255>>,   \* 2^64 - 24
      <<255, 255, 255, 255, 255, 255, 255, 255>>,   \* 2^64 - 1
      <<0, 0, 0, 255, 255, 255, 255, 255>> }        \* 2^64 - 2^24

SignatureLens ==
    { U32(0), U32(2), <<255, 255, 255, 255>>, <<0, 0, 0, 1>> }

\* What follows the header in the file.
Trailers == { <<>>, Cat(Pack(<<1>>), DataRegion), Rep(255, 3) }

\* How many bytes of the file are kept: all of it, or a file cut short.
Cuts == { OutOfRange, 0, 3, 11, 19, 23 }

HeaderFiles ==
    { TakeBytes(Envelope(m, v, ml, sl, <<>>, <<>>, tr), cut) :
        m \in Magics, v \in Versions, ml \in ManifestLens,
        sl \in SignatureLens, tr \in Trailers, cut \in {OutOfRange} }
    \cup
    { TakeBytes(Envelope(PAYLOAD_HEADER_MAGIC, U64(2), U64(1), U32(2),
                         <<>>, <<>>, <<>>), cut) : cut \in Cuts }

\* The fields of the file's header as they stand in the file.
FileMagic == Expand(Slice(file, zip_offset, 4))
FileVersion == FromBeBytes(Expand(Slice(file, zip_offset + 4, 8)))
FileManifestLen == FromBeBytes(Expand(Slice(file, zip_offset + 12, 8)))
FileSignatureLen == FromBeBytes(Expand(Slice(file, zip_offset + 20, 4)))

InitHeader ==
    /\ build \in {"debug", "release"}
    /\ file \in HeaderFiles
    /\ zip_offset = 0
    /\ cursor = 0
    /\ header = None
    /\ manifest = None
    /\ fs = [p \in Creatable |-> None]
    /\ stdout = <<>>
    /\ events = <<>>
    /\ call = [Idle EXCEPT !.pc = "header", !.op = "read_header"]
    /\ ncalls = 0
    /\ fresh = [result |-> "Pending", events |-> <<>>, stdout |-> <<>>,
                fs |-> [p \in Creatable |-> None], cursor0 |-> 0]

\* One call of read_header with the cursor at the start of the file.
DoReadHeader ==
    /\ call.pc = "header"
    /\ LET r == ReadHeader(cursor)
       IN  /\ cursor' = r.cursor
           /\ header' = r.header
           /\ call' = [call EXCEPT
                         !.pc = IF r.res = "Panic" THEN "aborted" ELSE "done",
                         !.result = r.res]
    /\ UNCHANGED <<build, file, zip_offset, manifest, fs, stdout, events,
                   ncalls, fresh>>

NextHeader == DoReadHeader

SpecHeader == InitHeader /\ [][NextHeader]_vars

\* ============================================================ the properties

IsExtract == call.op = "extract"

\* The destination file of the running call.
Dest == Get(fs[call.out])

IsVerify(i, k) == events[i] = <<"verify", k>>
IsProgress(i) == events[i][1] = "progress"

\* The errors an operation of the loop of extract_selected ends with.
OperationFailures ==
    {"InvalidExtent", "IoError", "UnsupportedOperationKind", "ShortWrite",
     "OperationHashMismatch"}

\* The verification protocol of one extract call, over its callbacks so far.
VerifyProtocol ==
    /\ \A i \in 1..Len(events) :
          IsVerify(i, 0) => \A j \in (i + 1)..Len(events) : ~IsProgress(j)
    /\ \A i \in 1..Len(events) :
          (IsVerify(i, 1) \/ IsVerify(i, 2)) =>
              /\ i = Len(events)
              /\ i > 1 /\ IsVerify(i - 1, 0)
    /\ Cardinality({i \in 1..Len(events) : IsVerify(i, 0)}) <= 1
    /\ call.pc = "done" =>
          /\ (\E i \in 1..Len(events) : IsVerify(i, 0)) =>
                (IsVerify(Len(events), 1) \/ IsVerify(Len(events), 2))
          /\ (\E i \in 1..Len(events) : IsVerify(i, 1)) <=> call.result = "Done"
          /\ (\E i \in 1..Len(events) : IsVerify(i, 2))
                <=> call.result = "PartitionHashMismatch"
          /\ call.result \in OperationFailures =>
                \A i \in 1..Len(events) : IsProgress(i)

\* C1: during an extract call on_verify(0) comes after the last on_progress
\* call and is followed by exactly one terminal notification, on_verify(1)
\* with the result "Done" or on_verify(2) with PartitionHashMismatch; the two
\* are never both made, none is made without on_verify(0) before it, nothing
\* follows the terminal one, and on_verify is not called at all when an
\* operation fails.
C1_VerifyStateMachine == IsExtract => VerifyProtocol

\* How many partitions of the manifest bear the requested name.
Matches ==
    IF IsSome(manifest)
    THEN Cardinality({i \in 1..Len(Get(manifest).partitions) :
                        Get(manifest).partitions[i].partition_name = call.name})
    ELSE 0

\* The same protocol for the calls whose name at most one partition bears.
VerifyProtocolWhenNameUnique == (IsExtract /\ Matches <= 1) => VerifyProtocol

\* The operations of the partition whose extraction last began.
RunOps == Get(manifest).partitions[call.sel].operations

C3_HashCheckBeforeWrite ==
    (IsExtract /\ call.pc = "done" /\ call.result = "OperationHashMismatch")
        => Dest = call.opStartDest

\* The manifest of the payload file, when header and manifest parse.
FileManifest ==
    LET rh == ReadHeader(zip_offset)
    IN  IF rh.res = "Ok" THEN ReadManifest(Get(rh.header), rh.cursor).manifest
        ELSE None

\* The payload parses and none of its partitions is named n.
NoPartitionNamed(n) ==
    /\ IsSome(FileManifest)
    /\ \A i \in 1..Len(Get(FileManifest).partitions) :
          Get(FileManifest).partitions[i].partition_name # n

\* C4: an extract call for a name no partition of the manifest bears leaves
\* every destination file as it was (not created, not truncated, not
\* written), makes no callback, and ends with PartitionNotFound.
C4_NotFoundLeavesDestination ==
    [][ (call'.op = "extract" /\ NoPartitionNamed(call'.name)) =>
            /\ fs' = fs
            /\ events' = <<>>
            /\ call'.pc \in {"init", "lookup", "done"}
            /\ call'.pc = "done" => call'.result = "PartitionNotFound" ]_vars

C4_Witness ==
    /\ IsExtract /\ call.pc = "done" /\ call.result = "PartitionNotFound"
    /\ call.name = "missing" /\ call.out = "out.img"
    /\ fs["out.img"] = Some(Rep(7, 5))
    /\ events = <<>>

\* C5: a call on an instance that has served calls before ends as the same
\* call on a newly constructed instance does: same result, same callbacks
\* in the same order, same destination files, same output.
C5_ReusableInstance ==
    call.pc \in {"done", "aborted"} =>
        /\ call.result = fresh.result
        /\ events = fresh.events
        /\ fs = fresh.fs
        /\ stdout = fresh.stdout

C5_Witness ==
    /\ IsExtract /\ call.pc = "done" /\ call.result = "Done"
    /\ ncalls = 2 /\ call.stale /\ call.prevFailed
    /\ IsSome(header) /\ zip_offset = 0
    /\ events # <<>>

\* A number widened to 10 bytes, where sums and products of the model's
\* 64-bit values are exact.
Exact(x) == Widen(x, 10)

\* C6: for every header read_header accepts (magic CrAU, version 2) size is
\* 24, metadata_size is 24 + manifest_len and data_offset is signature_len
\* + 24 + manifest_len as mathematical integers.
C6_DerivedFieldsExact ==
    ( /\ call.pc # "header"
      /\ CLen(file) >= HEADER_SIZE
      /\ FileMagic = PAYLOAD_HEADER_MAGIC
      /\ FileVersion = U64(BRILLO_MAJOR_PAYLOAD_VERSION) ) =>
        /\ call.result = "Ok"
        /\ IsSome(header)
        /\ Get(header).size = U64(HEADER_SIZE)
        /\ Exact(Get(header).metadata_size)
             = WrapAdd(Exact(U64(HEADER_SIZE)), Exact(FileManifestLen))
        /\ Exact(Get(header).data_offset)
             = WrapAdd(Exact(FileSignatureLen),
                       WrapAdd(Exact(U64(HEADER_SIZE)), Exact(FileManifestLen)))

\* C7: with at least 24 bytes to read, read_header answers InvalidFormat for
\* every magic other than CrAU, whatever the bytes; else UnsupportedVersion
\* when the version is not 2; else a header, with the cursor 24 bytes on.
C7_HeaderValidation ==
    (call.pc # "header" /\ CLen(file) >= HEADER_SIZE) =>
        IF FileMagic # PAYLOAD_HEADER_MAGIC
        THEN call.result = "InvalidFormat"
        ELSE IF FileVersion # U64(BRILLO_MAJOR_PAYLOAD_VERSION)
        THEN call.result = "UnsupportedVersion"
        ELSE call.result = "Ok" /\ IsSome(header) /\ cursor = zip_offset + HEADER_SIZE

RECURSIVE ExpectedTotal(_, _)
\* The sum of (blocks of the first destination extent) x 4096 over the first
\* k operations of ops, exact.
ExpectedTotal(ops, k) ==
    IF k = 0 THEN Exact(U64(0))
    ELSE WrapAdd(ExpectedTotal(ops, k - 1),
                 WrapMul(Exact(UnwrapOr(ops[k].dst_extents[1].num_blocks, U64(0))),
                         BLOCK_SIZE))

\* C8: at every on_progress call and at on_verify(0) the destination is as
\* long as the expected sizes of the operations completed so far add up to,
\* an operation that wrote any other count having ended with ShortWrite; and
\* after a successful extract it is as long as those of all the operations.
C8_OutputLength ==
    (IsExtract /\ call.sel # 0 /\ call.pc \in {"ops", "verify", "lookup", "done"}
               /\ call.result \in {"Pending", "Done", "PartitionHashMismatch"}) =>
        Exact(U64(CLen(Dest))) = ExpectedTotal(RunOps, call.oidx - 1)

\* The same, for the partitions none of whose block counts times 4096
\* exceeds 64 bits.
OutputLengthWithoutOverflow ==
    (call.sel # 0 =>
        \A k \in 1..(call.oidx - 1) :
            ~MulOverflows(UnwrapOr(RunOps[k].dst_extents[1].num_blocks, U64(0)),
                          BLOCK_SIZE))
    => C8_OutputLength

\* C9: get_partition_list, on success, returns a text that holds every
\* partition's name and declared size, and makes no callback.
C9_ListReturnsNamesAndSizes ==
    (call.op = "list" /\ call.pc = "done" /\ call.result = "Done") =>
        /\ \A i \in 1..Len(Get(manifest).partitions) :
              LET p == Get(manifest).partitions[i]
              IN  /\ Contains(ReturnedText(Cur), Word(p.partition_name))
                  /\ Contains(ReturnedText(Cur),
                              Number(Get(Get(p.new_partition_info).size)))
        /\ events = <<>>

\* C10: a source read that brings fewer than data_length bytes ends extract
\* with a truncation error, and nothing of the zero-padded buffer is written.
C10_PartialReadIsFatal ==
    (IsExtract /\ call.shortRead) =>
        /\ call.pc = "done"
        /\ call.result = "UnexpectedEof"
        /\ Dest = call.opStartDest

====
